---------------------------- MODULE Spec2Model ----------------------------
(***************************************************************************)
(* A model of the Go package vincenty (src/vincenty.go): the Distance      *)
(* type with its unit accessors, and Inverse, Vincenty's inverse formula   *)
(* on the WGS-84 ellipsoid.                                                *)
(*                                                                         *)
(* The program is float64 arithmetic, so the model carries IEEE-754        *)
(* binary64 values.  +, -, *, / and Sqrt are correctly rounded (round to   *)
(* nearest, ties to even, with subnormals, infinities and NaN), as the     *)
(* hardware computes them when each operation is rounded on its own (no    *)
(* fused multiply-add).  The functions of package math that Inverse calls  *)
(* (Sin, Cos, Tan, Atan, Atan2, Round, Abs) are computed to 120 fractional *)
(* bits and then rounded to binary64.                                      *)
(*                                                                         *)
(* TLC's integers are 32 bits wide, so a significand is held as a natural  *)
(* number in limbs of 15 bits, least significant limb first.               *)
(***************************************************************************)
EXTENDS Integers, Sequences, FiniteSets, TLC

(***************************************************************************)
(* Natural numbers of any size: sequences of limbs in 0 .. Base-1, least   *)
(* significant first, without leading (most significant) zero limbs.      *)
(* The empty sequence is 0.                                                *)
(***************************************************************************)
LimbBits == 15

Base == 2^LimbBits

Max(i, j) == IF i > j THEN i ELSE j

Min(i, j) == IF i < j THEN i ELSE j

\* Limb i of a, zero above its length.
Limb(a, i) == IF i <= Len(a) THEN a[i] ELSE 0

\* a without leading zero limbs.
NNorm(a) ==
    LET nz == {i \in 1..Len(a) : a[i] # 0}
    IN  IF nz = {} THEN <<>>
        ELSE SubSeq(a, 1, CHOOSE i \in nz : \A j \in nz : j <= i)

NFromInt(k) ==
    NNorm(<<k % Base, (k \div Base) % Base, k \div (Base * Base)>>)

\* The operators below that carry from limb to limb work on a range lo..hi of
\* limb positions, split in halves: the half the carry comes from is done
\* first and hands its carry to the other.  Each returns the limbs of the
\* range and the carry out of it.
RECURSIVE AddRange(_, _, _, _, _)
AddRange(a, b, lo, hi, c) ==
    IF lo = hi
    THEN LET x == Limb(a, lo) + Limb(b, lo) + c
         IN  [s |-> <<x % Base>>, c |-> x \div Base]
    ELSE LET mid  == (lo + hi) \div 2
             low  == AddRange(a, b, lo, mid, c)
             high == AddRange(a, b, mid + 1, hi, low.c)
         IN  [s |-> low.s \o high.s, c |-> high.c]

\* The limbs of a range that starts at limb 1, with the carry out of it.
WithCarry(r) == IF r.c = 0 THEN r.s ELSE r.s \o <<r.c>>

NAdd(a, b) ==
    IF a = <<>> THEN b
    ELSE IF b = <<>> THEN a
    ELSE WithCarry(AddRange(a, b, 1, Max(Len(a), Len(b)), 0))

\* a - b - c on the range, c the borrow.
RECURSIVE SubRange(_, _, _, _, _)
SubRange(a, b, lo, hi, c) ==
    IF lo = hi
    THEN LET x == Limb(a, lo) - Limb(b, lo) - c
         IN  [s |-> <<IF x < 0 THEN x + Base ELSE x>>, c |-> IF x < 0 THEN 1 ELSE 0]
    ELSE LET mid  == (lo + hi) \div 2
             low  == SubRange(a, b, lo, mid, c)
             high == SubRange(a, b, mid + 1, hi, low.c)
         IN  [s |-> low.s \o high.s, c |-> high.c]

\* a - b for a >= b.
NSub(a, b) ==
    IF b = <<>> THEN a ELSE NNorm(SubRange(a, b, 1, Len(a), 0).s)

\* -1, 0 or 1 as a < b, a = b or a > b.
NCmp(a, b) ==
    IF Len(a) < Len(b) THEN -1
    ELSE IF Len(a) > Len(b) THEN 1
    ELSE LET d == {i \in 1..Len(a) : a[i] # b[i]}
         IN  IF d = {} THEN 0
             ELSE LET i == CHOOSE i \in d : \A j \in d : j <= i
                  IN  IF a[i] < b[i] THEN -1 ELSE 1

\* a * k + c on the range, for a limb-sized k.
RECURSIVE MulSmallRange(_, _, _, _, _)
MulSmallRange(a, k, lo, hi, c) ==
    IF lo = hi
    THEN LET x == a[lo] * k + c
         IN  [s |-> <<x % Base>>, c |-> x \div Base]
    ELSE LET mid  == (lo + hi) \div 2
             low  == MulSmallRange(a, k, lo, mid, c)
             high == MulSmallRange(a, k, mid + 1, hi, low.c)
         IN  [s |-> low.s \o high.s, c |-> high.c]

NMulSmall(a, k) ==
    IF a = <<>> \/ k = 0 THEN <<>>
    ELSE WithCarry(MulSmallRange(a, k, 1, Len(a), 0))

NShlLimbs(a, n) == IF a = <<>> THEN <<>> ELSE [i \in 1..n |-> 0] \o a

\* a times the limbs lo..hi of b.
RECURSIVE MulRange(_, _, _, _)
MulRange(a, b, lo, hi) ==
    IF lo = hi THEN NMulSmall(a, b[lo])
    ELSE LET mid == (lo + hi) \div 2
         IN  NAdd(MulRange(a, b, lo, mid),
                  NShlLimbs(MulRange(a, b, mid + 1, hi), mid + 1 - lo))

NMul(a, b) ==
    IF a = <<>> \/ b = <<>> THEN <<>> ELSE MulRange(a, b, 1, Len(b))

Reverse(s) == [i \in 1..Len(s) |-> s[Len(s) + 1 - i]]

\* Division by a limb-sized k > 0 on the range, from the top limb down: r is
\* the remainder that comes in from above, q the quotient limbs in the order
\* they are produced (top limb first).
RECURSIVE DivSmallRange(_, _, _, _, _)
DivSmallRange(a, k, lo, hi, r) ==
    IF lo = hi
    THEN LET cur == r * Base + a[lo]
         IN  [q |-> <<cur \div k>>, r |-> cur % k]
    ELSE LET mid  == (lo + hi) \div 2
             high == DivSmallRange(a, k, mid + 1, hi, r)
             low  == DivSmallRange(a, k, lo, mid, high.r)
         IN  [q |-> high.q \o low.q, r |-> low.r]

NDivSmall(a, k) ==
    IF a = <<>> THEN <<>> ELSE NNorm(Reverse(DivSmallRange(a, k, 1, Len(a), 0).q))

NModSmall(a, k) ==
    IF a = <<>> THEN 0 ELSE DivSmallRange(a, k, 1, Len(a), 0).r

NShl(a, bits) == NMulSmall(NShlLimbs(a, bits \div LimbBits), 2^(bits % LimbBits))

NShr(a, bits) ==
    LET n == bits \div LimbBits
    IN  IF n >= Len(a) THEN <<>>
        ELSE NDivSmall(SubSeq(a, n + 1, Len(a)), 2^(bits % LimbBits))

NShift(a, bits) == IF bits >= 0 THEN NShl(a, bits) ELSE NShr(a, -bits)

BitLenInt(k) == CHOOSE n \in 0..LimbBits : k < 2^n /\ (n = 0 \/ k >= 2^(n - 1))

NBitLen(a) == IF a = <<>> THEN 0 ELSE LimbBits * (Len(a) - 1) + BitLenInt(a[Len(a)])

\* Bit i of a (bit 0 is the least significant).
NBit(a, i) ==
    LET n == i \div LimbBits
    IN  IF n >= Len(a) THEN 0 ELSE (a[n + 1] \div 2^(i % LimbBits)) % 2

\* Whether the low `bits` bits of a are all zero.
NLowZero(a, bits) ==
    LET n == bits \div LimbBits
    IN  /\ \A i \in 1..n : i > Len(a) \/ a[i] = 0
        /\ n >= Len(a) \/ a[n + 1] % 2^(bits % LimbBits) = 0

NIsOdd(a) == a # <<>> /\ a[1] % 2 = 1

\* One quotient limb of R by the normalised divisor D (its top limb >= Base/2),
\* for R < D * Base: the estimate from the top limbs is at most 2 too large.
RECURSIVE NFixDigit(_, _, _)
NFixDigit(R, D, q) ==
    IF q > 0 /\ NCmp(NMulSmall(D, q), R) > 0 THEN NFixDigit(R, D, q - 1) ELSE q

NQuotDigit(R, D) ==
    LET n == Len(D)
    IN  IF Len(R) < n THEN 0
        ELSE LET top == Limb(R, n + 1) * Base + R[n]
                 est == top \div D[n]
             IN  NFixDigit(R, D, IF est > Base - 1 THEN Base - 1 ELSE est)

\* Long division of the limbs lo..hi of A by D, from the top limb down: R is
\* the remainder that comes in from above, q as in DivSmallRange.
DivDigit(R, D, qd) == [q |-> <<qd>>, r |-> NSub(R, NMulSmall(D, qd))]

DivLimb(R, D) == DivDigit(R, D, NQuotDigit(R, D))

RECURSIVE DivRange(_, _, _, _, _)
DivRange(A, D, lo, hi, R) ==
    IF lo = hi
    THEN DivLimb(NNorm(<<A[lo]>> \o R), D)
    ELSE LET mid  == (lo + hi) \div 2
             high == DivRange(A, D, mid + 1, hi, R)
             low  == DivRange(A, D, lo, mid, high.r)
         IN  [q |-> high.q \o low.q, r |-> low.r]

\* Quotient and remainder of a by b > 0.
DivResult(res, sh) == [q |-> NNorm(Reverse(res.q)), r |-> NShr(res.r, sh)]

\* A and D are a and b shifted left by sh bits, which normalises D.
DivNormalised(A, D, sh) == DivResult(DivRange(A, D, 1, Len(A), <<>>), sh)

DivShifted(a, b, sh) == DivNormalised(NShl(a, sh), NShl(b, sh), sh)

NDivMod(a, b) ==
    IF a = <<>> THEN [q |-> <<>>, r |-> <<>>]
    ELSE DivShifted(a, b, LimbBits - BitLenInt(b[Len(b)]))

\* floor(sqrt(a)) by Newton's iteration from a power of two above the root.
RECURSIVE NSqrtIter(_, _)
NSqrtStep(a, x, y) == IF NCmp(y, x) < 0 THEN NSqrtIter(a, y) ELSE x

NSqrtIter(a, x) == NSqrtStep(a, x, NShr(NAdd(x, NDivMod(a, x).q), 1))

NSqrt(a) ==
    IF a = <<>> THEN <<>>
    ELSE NSqrtIter(a, NShl(<<1>>, (NBitLen(a) + 1) \div 2))

(***************************************************************************)
(* float64.  A value is a record [k, s, m, e]: k is "fin", "inf" or "nan", *)
(* s the sign bit, and a finite value is (-1)^s * m * 2^e with m < 2^53.   *)
(* Each value has one representation: m has exactly 53 bits, or e is EMin  *)
(* (a subnormal, or zero with m = 0); NaN and the infinities have m = 0    *)
(* and e = EMin.                                                           *)
(***************************************************************************)
MantBits == 53

EMin == -1074

EMax == 1024

NaN == [k |-> "nan", s |-> 0, m |-> <<>>, e |-> EMin]

Inf(s) == [k |-> "inf", s |-> s, m |-> <<>>, e |-> EMin]

FZero(s) == [k |-> "fin", s |-> s, m |-> <<>>, e |-> EMin]

IsNaN(x) == x.k = "nan"

IsInf(x) == x.k = "inf"

IsZero(x) == x.k = "fin" /\ x.m = <<>>

\* The value (-1)^s * m * 2^e of a significand m that already fits.
FPack(s, m, e) ==
    IF m = <<>> THEN FZero(s)
    ELSE IF NBitLen(m) + e > EMax THEN Inf(s)
    ELSE [k |-> "fin", s |-> s, m |-> m, e |-> e]

\* Round to nearest, ties to even: the float64 nearest to (-1)^s * v, where v is
\* n * 2^e when sticky is FALSE and lies strictly between n * 2^e and
\* (n+1) * 2^e when sticky is TRUE (callers then pass n of 55 bits or more).
\* sh is the number of low bits of n that do not fit (none when sh <= 0, and
\* then n is shifted up as far as the exponent allows); q is n without them,
\* up whether they round q up, m the rounded q, which may have grown a bit.
RoundCarry(s, m, e) ==
    IF NBitLen(m) > MantBits THEN FPack(s, NShr(m, 1), e + 1) ELSE FPack(s, m, e)

RoundUp(s, q, e, up) == RoundCarry(s, IF up THEN NAdd(q, <<1>>) ELSE q, e)

RoundTie(s, q, e, half, rest) == RoundUp(s, q, e, half /\ (rest \/ NIsOdd(q)))

RoundAt(s, n, e, sticky, sh) ==
    IF sh <= 0 THEN FPack(s, NShl(n, -sh), e + sh)
    ELSE RoundTie(s, NShr(n, sh), e + sh, NBit(n, sh - 1) = 1,
                  sticky \/ ~NLowZero(n, sh - 1))

FRound(s, n, e, sticky) ==
    IF n = <<>> THEN FZero(s)
    ELSE RoundAt(s, n, e, sticky, Max(NBitLen(n) - MantBits, EMin - e))

FNeg(x) == IF IsNaN(x) THEN x ELSE [x EXCEPT !.s = 1 - x.s]

\* math.Abs
Abs(x) == IF IsNaN(x) THEN x ELSE [x EXCEPT !.s = 0]

\* -1, 0, 1 as |x| < |y|, |x| = |y|, |x| > |y|, for x and y not NaN.
MagCmp(x, y) ==
    IF IsInf(x) \/ IsInf(y)
    THEN (IF IsInf(x) /\ IsInf(y) THEN 0 ELSE IF IsInf(x) THEN 1 ELSE -1)
    ELSE IF x.e < y.e THEN -1
    ELSE IF x.e > y.e THEN 1
    ELSE NCmp(x.m, y.m)

\* Go's x == y and x < y on float64: NaN compares unequal and unordered,
\* and -0 == +0.
FEq(x, y) ==
    /\ ~IsNaN(x)
    /\ ~IsNaN(y)
    /\ \/ IsZero(x) /\ IsZero(y)
       \/ x = y

FLt(x, y) ==
    /\ ~IsNaN(x)
    /\ ~IsNaN(y)
    /\ ~(IsZero(x) /\ IsZero(y))
    /\ IF x.s # y.s THEN x.s = 1
       ELSE IF x.s = 0 THEN MagCmp(x, y) < 0
       ELSE MagCmp(x, y) > 0

FLe(x, y) == FLt(x, y) \/ FEq(x, y)

\* x + y exactly, for finite nonzero x and y with x.e >= y.e, in the form
\* FRound takes.
\* n is x's significand at y's exponent, c its comparison with y's.
AddSigned(x, y, n, c) ==
    IF x.s = y.s THEN [s |-> x.s, n |-> NAdd(n, y.m), e |-> y.e, sticky |-> FALSE]
    ELSE IF c = 0 THEN [s |-> 0, n |-> <<>>, e |-> y.e, sticky |-> FALSE]
    ELSE IF c > 0 THEN [s |-> x.s, n |-> NSub(n, y.m), e |-> y.e, sticky |-> FALSE]
    ELSE [s |-> y.s, n |-> NSub(y.m, n), e |-> y.e, sticky |-> FALSE]

AddAligned(x, y, n) == AddSigned(x, y, n, NCmp(n, y.m))

\* y is below an eighth of x's last place: it only decides the rounding.
AddFar(x, y, n) ==
    [s |-> x.s, n |-> IF x.s = y.s THEN n ELSE NSub(n, <<1>>), e |-> x.e - 3,
     sticky |-> TRUE]

AddOrdered(x, y) ==
    IF x.e - y.e > MantBits + 3 THEN AddFar(x, y, NShl(x.m, 3))
    ELSE AddAligned(x, y, NShl(x.m, x.e - y.e))

RoundExact(v) == FRound(v.s, v.n, v.e, v.sticky)

FAdd(x, y) ==
    IF IsNaN(x) \/ IsNaN(y) THEN NaN
    ELSE IF IsInf(x) THEN (IF IsInf(y) /\ x.s # y.s THEN NaN ELSE x)
    ELSE IF IsInf(y) THEN y
    ELSE IF IsZero(x) /\ IsZero(y) THEN FZero(IF x.s = 1 /\ y.s = 1 THEN 1 ELSE 0)
    ELSE IF IsZero(x) THEN y
    ELSE IF IsZero(y) THEN x
    ELSE RoundExact(AddOrdered(IF x.e >= y.e THEN x ELSE y, IF x.e >= y.e THEN y ELSE x))

FSub(x, y) == FAdd(x, FNeg(y))

SignXor(x, y) == IF x.s = y.s THEN 0 ELSE 1

FMul(x, y) ==
    IF IsNaN(x) \/ IsNaN(y) THEN NaN
    ELSE IF IsInf(x) \/ IsInf(y)
    THEN (IF IsZero(x) \/ IsZero(y) THEN NaN ELSE Inf(SignXor(x, y)))
    ELSE IF IsZero(x) \/ IsZero(y) THEN FZero(SignXor(x, y))
    ELSE FRound(SignXor(x, y), NMul(x.m, y.m), x.e + y.e, FALSE)

\* The quotient dm of the significands, x's scaled by 2^k, rounded.
DivRound(sign, dm, e) == FRound(sign, dm.q, e, dm.r # <<>>)

DivScaled(x, y, k) == DivRound(SignXor(x, y), NDivMod(NShl(x.m, k), y.m), x.e - y.e - k)

FDiv(x, y) ==
    IF IsNaN(x) \/ IsNaN(y) THEN NaN
    ELSE IF IsInf(x) THEN (IF IsInf(y) THEN NaN ELSE Inf(SignXor(x, y)))
    ELSE IF IsInf(y) THEN FZero(SignXor(x, y))
    ELSE IF IsZero(y) THEN (IF IsZero(x) THEN NaN ELSE Inf(SignXor(x, y)))
    ELSE IF IsZero(x) THEN FZero(SignXor(x, y))
    ELSE DivScaled(x, y, Max(0, MantBits + 3 + NBitLen(y.m) - NBitLen(x.m)))

\* The root r of n = m * 2^k, where x = m * 2^e and e - k is even.
SqrtRound(n, r, e) == FRound(0, r, e, NMul(r, r) # n)

SqrtOf(n, e) == SqrtRound(n, NSqrt(n), e)

SqrtScaled(x, k) == SqrtOf(NShl(x.m, k), (x.e - k) \div 2)

SqrtShift(e, k0) == k0 + ((e - k0) % 2)

\* math.Sqrt
Sqrt(x) ==
    IF IsNaN(x) THEN NaN
    ELSE IF IsZero(x) THEN x
    ELSE IF x.s = 1 THEN NaN
    ELSE IF IsInf(x) THEN x
    ELSE SqrtScaled(x, SqrtShift(x.e, 2 * MantBits + 4 - NBitLen(x.m)))

\* The float64 of a natural number below 2^MantBits in limbs, and of an
\* integer: both are exact.
FExact(n, len) ==
    [k |-> "fin", s |-> 0, m |-> NShl(n, MantBits - len), e |-> len - MantBits]

FNat(n) == IF n = <<>> THEN FZero(0) ELSE FExact(n, NBitLen(n))

FInt(i) == [FNat(NFromInt(IF i < 0 THEN -i ELSE i)) EXCEPT !.s = IF i < 0 THEN 1 ELSE 0]

RECURSIVE NPow10(_)
NPow10(k) == IF k = 0 THEN <<1>> ELSE NMulSmall(NPow10(k - 1), 10)

\* math.Round: to the nearest integer, halves away from zero.
Round(x) ==
    IF x.k # "fin" \/ IsZero(x) \/ x.e >= 0 THEN x
    ELSE IF NBitLen(x.m) < -x.e THEN FZero(x.s)
    ELSE FRound(x.s, NAdd(NShr(x.m, -x.e), NFromInt(NBit(x.m, -x.e - 1))), 0, FALSE)

(***************************************************************************)
(* Package math: Sin, Cos, Tan, Atan and Atan2 (with Sqrt, Round and Abs   *)
(* above).  An argument is taken exactly, the function is evaluated in     *)
(* fixed point with FixBits fractional bits by its Taylor series after an  *)
(* argument reduction, and the result is rounded to float64 once.          *)
(***************************************************************************)
FixBits == 120

\* The depth to which the series are summed; the reduced arguments are at
\* most pi/4 (Sin, Cos) and 1/16 (Atan), so the terms left out are below
\* 2^-FixBits.
SeriesTerms == 16

FixOne == <<0, 0, 0, 0, 0, 0, 0, 0, 1>>

\* floor(pi/2 * 2^FixBits) and floor(pi/4 * 2^FixBits)
HalfPiFix == <<14393,11779,13076,19532,6214,2138,27985,18703,1>>

QuarterPiFix == <<23580,5889,6538,9766,3107,17453,30376,25735>>

\* floor(atan(j/8) * 2^FixBits), j = 1 .. 8
AtanTab ==
    <<<<20753,10191,19404,13000,30428,21893,28326,4074>>,
      <<26757,31483,18334,10971,7084,19232,15100,8027>>,
      <<32546,8924,17986,20010,15395,29295,6465,11756>>,
      <<7494,27836,18571,5567,21466,12509,26373,15192>>,
      <<17463,11467,3448,23268,23033,24318,5975,18304>>,
      <<32172,21642,8700,8397,28818,9886,8006,21086>>,
      <<9284,9249,13973,7769,6631,30790,20362,23554>>,
      <<23580,5889,6538,9766,3107,17453,30376,25735>>>>

FixMul(a, b) == NShr(NMul(a, b), FixBits)

\* math.Pi, math.Pi/2, math.Pi/4 and 3*math.Pi/4 converted to float64
Pi == [k |-> "fin", s |-> 0, m |-> <<11544, 10376, 2029, 201>>, e |-> -51]

HalfPi == [Pi EXCEPT !.e = -52]

QuarterPi == [Pi EXCEPT !.e = -53]

ThreeQuarterPi == [k |-> "fin", s |-> 0, m |-> <<8658, 32358, 26097, 150>>, e |-> -51]

\* Whether the finite value x is so small that sin x, tan x and atan x round
\* to x and cos x rounds to 1.
IsTiny(x) == NBitLen(x.m) + x.e <= -27

\* The series are summed from the innermost factor outwards, h being the
\* value of the factors n+1 and beyond.  For t = r^2,
\*   sin(r)/r = 1 - t/(2*3) (1 - t/(4*5) (1 - ...))    (odd = 1)
\*   cos(r)   = 1 - t/(1*2) (1 - t/(3*4) (1 - ...))    (odd = 0)
RECURSIVE SinCosH(_, _, _, _)
SinCosStep(t, n, odd, p) ==
    IF p = <<>> THEN SinCosH(t, n - 1, FixOne, odd)
    ELSE SinCosH(t, n - 1, NSub(FixOne, p), odd)

SinCosH(t, n, h, odd) ==
    IF n = 0 THEN h
    ELSE SinCosStep(t, n, odd, NDivSmall(FixMul(t, h), (2 * n - 1 + odd) * (2 * n + odd)))

\* atan(u)/u = 1 - t (1/3 - t (1/5 - ...)) for t = u^2; h is the value of
\* 1/(2n+3) - t (1/(2n+5) - ...).
RECURSIVE AtanH(_, _, _)
AtanStep(t, n, p) ==
    IF p = <<>> THEN AtanH(t, n - 1, NDivSmall(FixOne, 2 * n + 1))
    ELSE AtanH(t, n - 1, NSub(NDivSmall(FixOne, 2 * n + 1), p))

AtanH(t, n, h) == IF n < 0 THEN h ELSE AtanStep(t, n, FixMul(t, h))

SinCosSeries(t, odd) == SinCosH(t, SeriesTerms, FixOne, odd)

AtanSeries(t) == AtanH(t, SeriesTerms, <<>>)

\* |x| = k * pi/2 + r with |r| <= pi/4, for finite x that is not tiny:
\* k modulo 4, and r as (-1)^neg * m * 2^e.  dm is the division of
\* |x| + pi/4 by pi/2, below whether its remainder is under pi/4.
Quadrant(k, r, below) ==
    [k |-> k, neg |-> below,
     m |-> IF below THEN NSub(QuarterPiFix, r) ELSE NSub(r, QuarterPiFix),
     e |-> -FixBits]

Reduced(x, dm) ==
    IF dm.q = <<>> THEN [k |-> 0, neg |-> FALSE, m |-> x.m, e |-> x.e]
    ELSE Quadrant(NModSmall(dm.q, 4), dm.r, NCmp(dm.r, QuarterPiFix) < 0)

TrigReduce(x) ==
    Reduced(x, NDivMod(NAdd(NShift(x.m, x.e + FixBits), QuarterPiFix), HalfPiFix))

\* r^2 in fixed point for a reduced argument.
RedSq(red) == NShift(NMul(red.m, red.m), 2 * red.e + FixBits)

\* The value the function named fn has at x, to be rounded: sn is
\* |sin |x|| and cs is |cos |x||, each n * 2^e, snNeg and csNeg tell
\* whether sin |x| and cos |x| are negative.
TanShift(sn, cs) == Max(0, MantBits + 3 + NBitLen(cs.n) - NBitLen(sn.n))

TanQuotient(sn, cs, k) == [n |-> NDivMod(NShl(sn.n, k), cs.n).q, e |-> sn.e - cs.e - k]

Signed(s, v) == [s |-> s, n |-> v.n, e |-> v.e]

TrigValue(fn, s, sn, cs, snNeg, csNeg) ==
    IF fn = "Sin" THEN Signed(IF snNeg THEN 1 - s ELSE s, sn)
    ELSE IF fn = "Cos" THEN Signed(IF csNeg THEN 1 ELSE 0, cs)
    ELSE Signed(IF snNeg = csNeg THEN s ELSE 1 - s, TanQuotient(sn, cs, TanShift(sn, cs)))

\* sinR and cosR are |sin r| and cos r of the reduced argument; sin |x| and
\* cos |x| are one of them each, with the sign of the quadrant k.
TrigQuadrant(fn, s, k, neg, sinR, cosR) ==
    TrigValue(fn, s,
              IF k % 2 = 0 THEN sinR ELSE cosR,
              IF k % 2 = 0 THEN cosR ELSE sinR,
              IF k = 0 THEN neg ELSE IF k = 1 THEN FALSE ELSE IF k = 2 THEN ~neg ELSE TRUE,
              IF k = 0 THEN FALSE ELSE IF k = 1 THEN ~neg ELSE IF k = 2 THEN TRUE ELSE neg)

TrigSeries(fn, s, red, t) ==
    TrigQuadrant(fn, s, red.k, red.neg,
                 [n |-> NMul(red.m, SinCosSeries(t, 1)), e |-> red.e - FixBits],
                 [n |-> SinCosSeries(t, 0), e |-> -FixBits])

TrigReduced(fn, s, red) == TrigSeries(fn, s, red, RedSq(red))

RoundInexact(v) == FRound(v.s, v.n, v.e, TRUE)

\* math.Sin, math.Cos and math.Tan, fn naming the function.
SinCosTan(fn, x) ==
    IF IsNaN(x) \/ IsInf(x) THEN NaN
    ELSE IF IsZero(x) \/ IsTiny(x) THEN (IF fn = "Cos" THEN FNat(<<1>>) ELSE x)
    ELSE RoundInexact(TrigReduced(fn, x.s, TrigReduce(x)))

Sin(x) == SinCosTan("Sin", x)

Cos(x) == SinCosTan("Cos", x)

Tan(x) == SinCosTan("Tan", x)

\* atan(y) in fixed point for a fixed-point y in [0, 1]: the nearest j/8 is
\* taken off, atan y = atan(j/8) + atan((y - j/8) / (1 + y j/8)).
FirstLimb(n) == IF n = <<>> THEN 0 ELSE n[1]

NearestEighth(Y) == FirstLimb(NShr(NAdd(NShl(Y, 3), NShr(FixOne, 1)), FixBits))

AtanSmall(U) == FixMul(U, AtanSeries(FixMul(U, U)))

\* Y8 is 8 y and jOne is j, in fixed point; below: y < j/8.
AtanOff(Y, j, Y8, jOne, below) ==
    AtanSmall(NDivMod(NShl(IF below THEN NSub(jOne, Y8) ELSE NSub(Y8, jOne), FixBits),
                      NAdd(NShl(FixOne, 3), NMulSmall(Y, j))).q)

AtanNear(j, below, rest) ==
    IF below THEN NSub(AtanTab[j], rest) ELSE NAdd(AtanTab[j], rest)

AtanEighth(Y, j, Y8, jOne, below) == AtanNear(j, below, AtanOff(Y, j, Y8, jOne, below))

AtanAt(Y, j, Y8, jOne) == AtanEighth(Y, j, Y8, jOne, NCmp(Y8, jOne) < 0)

AtanFixAt(Y, j) ==
    IF j = 0 THEN AtanSmall(Y) ELSE AtanAt(Y, j, NShl(Y, 3), NMulSmall(FixOne, j))

AtanFix(Y) == AtanFixAt(Y, NearestEighth(Y))

\* X is |x| in fixed point: up to 1/16 the series is summed at x itself,
\* above 1 (big) atan x = pi/2 - atan(1/x).
AtanBig(big, fix) == [n |-> IF big THEN NSub(HalfPiFix, fix) ELSE fix, e |-> -FixBits]

AtanFolded(X, big) ==
    AtanBig(big, AtanFix(IF big THEN NDivMod(NShl(FixOne, FixBits), X).q ELSE X))

AtanValue(x, X) ==
    IF NCmp(X, NShr(FixOne, 4)) <= 0
    THEN [n |-> NMul(x.m, AtanSeries(NShift(NMul(x.m, x.m), 2 * x.e + FixBits))),
          e |-> x.e - FixBits]
    ELSE AtanFolded(X, NCmp(X, FixOne) > 0)

\* math.Atan
Atan(x) ==
    IF IsNaN(x) THEN NaN
    ELSE IF IsInf(x) THEN [HalfPi EXCEPT !.s = x.s]
    ELSE IF IsZero(x) \/ IsTiny(x) THEN x
    ELSE RoundInexact(Signed(x.s, AtanValue(x, NShift(x.m, x.e + FixBits))))

\* The quadrant of math.Atan2, q being Atan(y / x).
Atan2Quadrant(q, x) ==
    IF x.s = 1 THEN FAdd(q, IF FLe(q, FZero(0)) THEN Pi ELSE FNeg(Pi)) ELSE q

\* math.Atan2
Atan2(y, x) ==
    IF IsNaN(x) \/ IsNaN(y) THEN NaN
    ELSE IF IsZero(y)
    THEN (IF x.s = 0 THEN y ELSE [Pi EXCEPT !.s = y.s])
    ELSE IF IsZero(x) THEN [HalfPi EXCEPT !.s = y.s]
    ELSE IF IsInf(x)
    THEN (IF x.s = 0
          THEN (IF IsInf(y) THEN [QuarterPi EXCEPT !.s = y.s] ELSE FZero(y.s))
          ELSE (IF IsInf(y) THEN [ThreeQuarterPi EXCEPT !.s = y.s]
                ELSE [Pi EXCEPT !.s = y.s]))
    ELSE IF IsInf(y) THEN [HalfPi EXCEPT !.s = y.s]
    ELSE Atan2Quadrant(Atan(FDiv(y, x)), x)

(***************************************************************************)
(* Go expressions and statements as data, and their evaluation.            *)
(* Floating-point expressions are evaluated operation by operation, in     *)
(* Go's order and with one rounding each (no fused multiply-add, as on     *)
(* amd64); an untyped constant expression is evaluated exactly and rounded *)
(* once.                                                                   *)
(***************************************************************************)
V(name) == <<"var", name>>

Val(x) == <<"val", x>>

Num(n) == <<"int", n>>

\* The natural number (hi * 10^9 + lo) * 10^k, which is below 2^MantBits.
Natural(hi, lo, k) == <<"nat", hi, lo, k>>

Neg(x) == <<"neg", x>>

Add(x, y) == <<"+", x, y>>

Sub(x, y) == <<"-", x, y>>

Mul(x, y) == <<"*", x, y>>

Div(x, y) == <<"/", x, y>>

\* The decimal literal (hi * 10^9 + lo) / 10^k: numerator and denominator
\* are exact, so one correctly rounded division gives the float64 nearest to
\* the literal.
Decimal(hi, lo, k) == Div(Natural(hi, lo, 0), Natural(0, 1, k))

Eq(x, y) == <<"==", x, y>>

Ne(x, y) == <<"!=", x, y>>

Lt(x, y) == <<"<", x, y>>

And(x, y) == <<"&&", x, y>>

MathSin(x) == <<"Sin", x>>

MathCos(x) == <<"Cos", x>>

MathTan(x) == <<"Tan", x>>

MathAtan(x) == <<"Atan", x>>

MathAtan2(y, x) == <<"Atan2", y, x>>

MathSqrt(x) == <<"Sqrt", x>>

MathAbs(x) == <<"Abs", x>>

MathRound(x) == <<"Round", x>>

\* A call of a one-parameter function of the package.
Apply(fn, x) == <<"call", fn, x>>

Assign(name, e) == <<"assign", e, name>>

IfThen(cond, block) == <<"if", cond, block>>

\* A return statement; site names which one it is.
ReturnAt(site, e) == <<"return", e, site>>

\* The value of expression e where env gives the variables' values: a
\* float64, or a boolean for a comparison.
RECURSIVE Eval(_, _)
Eval(e, env) ==
    CASE e[1] = "var"   -> env[e[2]]
      [] e[1] = "val"   -> e[2]
      [] e[1] = "int"   -> FInt(e[2])
      [] e[1] = "nat"   -> FNat(NMul(NAdd(NMul(NFromInt(e[2]), NPow10(9)), NFromInt(e[3])),
                                     NPow10(e[4])))
      [] e[1] = "neg"   -> FNeg(Eval(e[2], env))
      [] e[1] \in {"+", "-"} ->
             FAdd(Eval(e[2], env),
                  IF e[1] = "-" THEN FNeg(Eval(e[3], env)) ELSE Eval(e[3], env))
      [] e[1] = "*"     -> FMul(Eval(e[2], env), Eval(e[3], env))
      [] e[1] = "/"     -> FDiv(Eval(e[2], env), Eval(e[3], env))
      [] e[1] \in {"Sin", "Cos", "Tan"} -> SinCosTan(e[1], Eval(e[2], env))
      [] e[1] = "Atan"  -> Atan(Eval(e[2], env))
      [] e[1] = "Atan2" -> Atan2(Eval(e[2], env), Eval(e[3], env))
      [] e[1] = "Sqrt"  -> Sqrt(Eval(e[2], env))
      [] e[1] = "Abs"   -> Abs(Eval(e[2], env))
      [] e[1] = "Round" -> Round(Eval(e[2], env))
      [] e[1] = "call"  -> Eval(e[2].body, e[2].param :> Eval(e[3], env))
      [] e[1] = "=="    -> FEq(Eval(e[2], env), Eval(e[3], env))
      [] e[1] = "!="    -> ~FEq(Eval(e[2], env), Eval(e[3], env))
      [] e[1] = "<"     -> FLt(Eval(e[2], env), Eval(e[3], env))
      [] e[1] = "&&"    -> Eval(e[2], env) /\ Eval(e[3], env)

\* A value no statement has assigned.
Undef == [k |-> "undef", s |-> 0, m |-> <<>>, e |-> EMin]

\* The state of an activation: its variables, and the return statement it
\* has executed ("none" while it runs) with the value returned.
Activation(env) == [env |-> env, site |-> "none", ret |-> Undef]

\* The statements lo .. hi of a block, executed in order from state st;
\* nothing is executed after a return.
RECURSIVE RunRange(_, _, _, _)
\* One statement, v being the value of its expression.
Exec(stmt, st, v) ==
    CASE stmt[1] = "assign" -> [st EXCEPT !.env[stmt[3]] = v]
      [] stmt[1] = "if"     -> IF v THEN RunRange(stmt[3], 1, Len(stmt[3]), st) ELSE st
      [] stmt[1] = "return" -> [st EXCEPT !.site = stmt[3], !.ret = v]

RunRange(block, lo, hi, st) ==
    IF st.site # "none" \/ lo > hi THEN st
    ELSE IF lo < hi
    THEN RunRange(block, (lo + hi) \div 2 + 1, hi,
                  RunRange(block, lo, (lo + hi) \div 2, st))
    ELSE Exec(block[lo], st, Eval(block[lo][2], st.env))

Run(block, env) == RunRange(block, 1, Len(block), Activation(env))

(***************************************************************************)
(* vincenty.go                                                             *)
(***************************************************************************)
\* type Distance float64 and its accessors: the expression each returns,
\* d being the receiver.
Metres == V("d")

Meters == V("d")

Kilometres == Div(V("d"), Num(1000))

Kilometers == Div(V("d"), Num(1000))

NauticalMiles == Div(V("d"), Num(1852))

\* A variant of Miles that divides by the length of a nautical mile.
MilesAtSea == Div(V("d"), Num(1852))

Miles == Div(V("d"), Decimal(0, 1609344, 3))

Feet == Div(V("d"), Decimal(0, 3048, 4))

Distance ==
    [Metres |-> Metres, Meters |-> Meters, Kilometres |-> Kilometres,
     Kilometers |-> Kilometers, NauticalMiles |-> NauticalMiles, Miles |-> Miles,
     Feet |-> Feet]

LatLng(lat, lon) == [Latitude |-> lat, Longitude |-> lon]

radians == [param |-> "degrees", body |-> Div(Mul(V("degrees"), Val(Pi)), Num(180))]

square == [param |-> "f", body |-> Mul(V("f"), V("f"))]

\* Inverse, statement by statement.  WGS 84: f is the constant expression
\* 1.0 / 298.257223563, that is 10^9 / 298257223563 rounded once.
a == Assign("a", Num(6378137))

f == Assign("f", Div(Natural(1, 0, 0), Natural(298, 257223563, 0)))

b == Assign("b", Decimal(6356, 752314245, 6))

MaxIterations == 200

ConvergenceThreshold == Assign("ConvergenceThreshold", Decimal(0, 1, 12))

\* Lines 82-84.
\* A variant of lines 82-84 whose condition never holds.
NoShortCircuit == IfThen(Ne(V("a"), V("a")), <<ReturnAt("same", Num(0))>>)

ShortCircuit ==
    IfThen(And(Eq(V("point1.Latitude"), V("point2.Latitude")),
               Eq(V("point1.Longitude"), V("point2.Longitude"))),
           <<ReturnAt("same", Num(0))>>)

U1 == Assign("U1", MathAtan(Mul(Sub(Num(1), V("f")),
                                MathTan(Apply(radians, V("point1.Latitude"))))))

U2 == Assign("U2", MathAtan(Mul(Sub(Num(1), V("f")),
                                MathTan(Apply(radians, V("point2.Latitude"))))))

\* A variant of line 88 that measures the longitude of point2 from Greenwich.
LFromGreenwich == Assign("L", Apply(radians, V("point2.Longitude")))

\* Line 88.
L == Assign("L", Apply(radians, Sub(V("point2.Longitude"), V("point1.Longitude"))))

Lambda == Assign("Lambda", V("L"))

sinU1 == Assign("sinU1", MathSin(V("U1")))

cosU1 == Assign("cosU1", MathCos(V("U1")))

sinU2 == Assign("sinU2", MathSin(V("U2")))

cosU2 == Assign("cosU2", MathCos(V("U2")))

\* Lines 74-94: what Inverse does before its loop.
InverseEntry ==
    <<a, f, b, ConvergenceThreshold, ShortCircuit, U1, U2, L, Lambda,
      sinU1, cosU1, sinU2, cosU2>>

sinLambda == Assign("sinLambda", MathSin(V("Lambda")))

cosLambda == Assign("cosLambda", MathCos(V("Lambda")))

sinSigma ==
    Assign("sinSigma",
           MathSqrt(Add(Apply(square, Mul(V("cosU2"), V("sinLambda"))),
                        Apply(square, Sub(Mul(V("cosU1"), V("sinU2")),
                                          Mul(Mul(V("sinU1"), V("cosU2")),
                                              V("cosLambda")))))))

\* Lines 100-102.
\* A variant of lines 100-102 whose condition never holds.
NoCoincidentPoints == IfThen(Ne(V("a"), V("a")), <<ReturnAt("zero", Num(0))>>)

CoincidentPoints == IfThen(Eq(V("sinSigma"), Num(0)), <<ReturnAt("zero", Num(0))>>)

cosSigma ==
    Assign("cosSigma",
           Add(Mul(V("sinU1"), V("sinU2")),
               Mul(Mul(V("cosU1"), V("cosU2")), V("cosLambda"))))

sigma == Assign("sigma", MathAtan2(V("sinSigma"), V("cosSigma")))

sinAlpha ==
    Assign("sinAlpha",
           Div(Mul(Mul(V("cosU1"), V("cosU2")), V("sinLambda")), V("sinSigma")))

cosSqAlpha == Assign("cosSqAlpha", Sub(Num(1), Apply(square, V("sinAlpha"))))

\* Lines 107-110.
cos2SigmaM == Assign("cos2SigmaM", Num(0))

EquatorialLine ==
    IfThen(Ne(V("cosSqAlpha"), Num(0)),
           <<Assign("cos2SigmaM",
                    Sub(V("cosSigma"),
                        Div(Mul(Mul(Num(2), V("sinU1")), V("sinU2")),
                            V("cosSqAlpha"))))>>)

C ==
    Assign("C",
           Mul(Mul(Div(V("f"), Num(16)), V("cosSqAlpha")),
               Add(Num(4),
                   Mul(V("f"), Sub(Num(4), Mul(Num(3), V("cosSqAlpha")))))))

LambdaPrev == Assign("LambdaPrev", V("Lambda"))

\* -1.0 + 2.0 * square(cos2SigmaM), in lines 113 and 119.
TwiceSquareLessOne == Add(Num(-1), Mul(Num(2), Apply(square, V("cos2SigmaM"))))

\* Line 113.
LambdaNext ==
    Assign("Lambda",
           Add(V("L"),
               Mul(Mul(Mul(Sub(Num(1), V("C")), V("f")), V("sinAlpha")),
                   Add(V("sigma"),
                       Mul(Mul(V("C"), V("sinSigma")),
                           Add(V("cos2SigmaM"),
                               Mul(Mul(V("C"), V("cosSigma")),
                                   TwiceSquareLessOne)))))))

uSq ==
    Assign("uSq",
           Div(Mul(V("cosSqAlpha"),
                   Sub(Apply(square, V("a")), Apply(square, V("b")))),
               Apply(square, V("b"))))

A ==
    Assign("A",
           Add(Num(1),
               Mul(Div(V("uSq"), Num(16384)),
                   Add(Num(4096),
                       Mul(V("uSq"),
                           Add(Num(-768),
                               Mul(V("uSq"),
                                   Sub(Num(320), Mul(Num(175), V("uSq"))))))))))

B ==
    Assign("B",
           Mul(Div(V("uSq"), Num(1024)),
               Add(Num(256),
                   Mul(V("uSq"),
                       Add(Num(-128),
                           Mul(V("uSq"),
                               Sub(Num(74), Mul(Num(47), V("uSq")))))))))

deltaSigma ==
    Assign("deltaSigma",
           Mul(Mul(V("B"), V("sinSigma")),
               Add(V("cos2SigmaM"),
                   Mul(Div(V("B"), Num(4)),
                       Sub(Mul(V("cosSigma"), TwiceSquareLessOne),
                           Mul(Mul(Mul(Div(V("B"), Num(6)), V("cos2SigmaM")),
                                   Add(Num(-3),
                                       Mul(Num(4), Apply(square, V("sinSigma"))))),
                               Add(Num(-3),
                                   Mul(Num(4), Apply(square, V("cos2SigmaM"))))))))))

\* A variant of line 120 without the correction deltaSigma.
sUncorrected == Assign("s", Mul(Mul(V("b"), V("A")), V("sigma")))

\* Line 120.
s == Assign("s", Mul(Mul(V("b"), V("A")), Sub(V("sigma"), V("deltaSigma"))))

\* A variant of line 121 that keeps every digit of s.
NoRounding == Assign("s", V("s"))

\* Line 121.
ToMillimetre == Assign("s", Div(MathRound(Mul(V("s"), Num(1000))), Num(1000)))

\* Lines 114-123.
Convergence ==
    IfThen(Lt(MathAbs(Sub(V("Lambda"), V("LambdaPrev"))), V("ConvergenceThreshold")),
           <<uSq, A, B, deltaSigma, s, ToMillimetre, ReturnAt("converged", V("s"))>>)

\* Lines 97-123: the body of the loop.
InverseLoop ==
    <<sinLambda, cosLambda, sinSigma, CoincidentPoints, cosSigma, sigma, sinAlpha,
      cosSqAlpha, cos2SigmaM, EquatorialLine, C, LambdaPrev, LambdaNext, Convergence>>

\* A variant of line 96 without the bound on the iterations.
LoopForever(n) == n >= 0

\* Line 96.
LoopCondition(n) == n < MaxIterations

\* A variant of line 125 that returns zero.
FailureAsZero == Num(0)

\* Line 125.
Failure == Num(-1)

\* The variables of an activation of Inverse.
Locals ==
    {"point1.Latitude", "point1.Longitude", "point2.Latitude", "point2.Longitude",
     "a", "f", "b", "ConvergenceThreshold", "U1", "U2", "L", "Lambda",
     "sinU1", "cosU1", "sinU2", "cosU2", "sinLambda", "cosLambda", "sinSigma",
     "cosSigma", "sigma", "sinAlpha", "cosSqAlpha", "cos2SigmaM", "C", "LambdaPrev",
     "uSq", "A", "B", "deltaSigma", "s"}

NewFrame == [n \in Locals |-> Undef]

\* The caller's side of Inverse(p1, p2): the arguments are copied into the
\* callee's parameters.
PassArguments(p1, p2) ==
    <<Assign("point1.Latitude", p1.Latitude), Assign("point1.Longitude", p1.Longitude),
      Assign("point2.Latitude", p2.Latitude), Assign("point2.Longitude", p2.Longitude)>>

(***************************************************************************)
(* Points: those of vincenty_test.go, and points with a coordinate that is *)
(* NaN, infinite, a full turn or next to nothing.                          *)
(***************************************************************************)
Origin == LatLng(Num(0), Num(0))

East1 == LatLng(Num(0), Num(1))

North1 == LatLng(Num(1), Num(0))

NearAntipode == LatLng(Decimal(0, 5, 1), Decimal(0, 1795, 1))

Antipode == LatLng(Decimal(0, 5, 1), Decimal(0, 1797, 1))

Boston == LatLng(Decimal(0, 423541165, 7), Neg(Decimal(0, 710693514, 7)))

NewYork == LatLng(Decimal(0, 407791472, 7), Neg(Decimal(0, 739680804, 7)))

NaNPoint == LatLng(Val(NaN), Num(0))

InfPoint == LatLng(Num(0), Val(Inf(0)))

FullTurn == LatLng(Num(0), Num(360))

ArcticOcean == LatLng(Decimal(0, 86029, 3), Neg(Decimal(0, 152362, 3)))

Iowa == LatLng(Decimal(0, 42463, 3), Neg(Decimal(0, 92477, 3)))

\* longitude 2^-600
Hairbreadth == LatLng(Num(0), Val([k |-> "fin", s |-> 0, m |-> <<0, 0, 0, 128>>, e |-> -652]))

(***************************************************************************)
(* The callers.  Each caller p runs one call of Inverse at a time, one     *)
(* loop body per step, in its own activation; then it reads the Distance   *)
(* returned through every accessor.                                        *)
(***************************************************************************)
Callers == {1, 2}

\* A variant in which every call runs in one activation record, as if the
\* locals of Inverse were package-level variables.
SharedFrame(p) == 1

\* The activation record caller p's call runs in: Go allocates one per call.
Frame(p) == p

VARIABLES
    pc,       \* "idle", "loop" (in Inverse, before a loop test), "done", "read"
    args,     \* the points of the caller's last call
    frame,    \* the activations' variables
    i,        \* the loop counter
    site,     \* the return statement the call ended at
    ret,      \* the Distance returned
    units     \* what the accessors returned for it

vars == <<pc, args, frame, i, site, ret, units>>

NoUnits == [m \in DOMAIN Distance |-> Undef]

Init ==
    /\ pc = [p \in Callers |-> "idle"]
    /\ args = [p \in Callers |-> <<>>]
    /\ frame = [p \in Callers |-> NewFrame]
    /\ i = [p \in Callers |-> 0]
    /\ site = [p \in Callers |-> "none"]
    /\ ret = [p \in Callers |-> Undef]
    /\ units = [p \in Callers |-> NoUnits]

\* Caller p calls Inverse(p1, p2): lines 72-96, up to the first loop test.
Call(p, p1, p2) ==
    /\ pc[p] \in {"idle", "read"}
    /\ \E st \in {Run(PassArguments(p1, p2) \o InverseEntry, NewFrame)} :
           /\ frame' = [frame EXCEPT ![Frame(p)] = st.env]
           /\ site' = [site EXCEPT ![p] = st.site]
           /\ ret' = [ret EXCEPT ![p] = st.ret]
           /\ pc' = [pc EXCEPT ![p] = IF st.site = "none" THEN "loop" ELSE "done"]
    /\ args' = [args EXCEPT ![p] = <<p1, p2>>]
    /\ i' = [i EXCEPT ![p] = 0]
    /\ units' = [units EXCEPT ![p] = NoUnits]

\* One pass through the loop body, lines 96-124: it returns, or i++.
Iterate(p) ==
    /\ pc[p] = "loop"
    /\ LoopCondition(i[p])
    /\ \E st \in {Run(InverseLoop, frame[Frame(p)])} :
           /\ frame' = [frame EXCEPT ![Frame(p)] = st.env]
           /\ site' = [site EXCEPT ![p] = st.site]
           /\ ret' = [ret EXCEPT ![p] = st.ret]
           /\ pc' = [pc EXCEPT ![p] = IF st.site = "none" THEN "loop" ELSE "done"]
           /\ i' = [i EXCEPT ![p] = IF st.site = "none" THEN @ + 1 ELSE @]
    /\ UNCHANGED <<args, units>>

\* The loop ends without a return: line 125.
GiveUp(p) ==
    /\ pc[p] = "loop"
    /\ ~LoopCondition(i[p])
    /\ site' = [site EXCEPT ![p] = "failed"]
    /\ ret' = [ret EXCEPT ![p] = FInt(Failure[2])]
    /\ pc' = [pc EXCEPT ![p] = "done"]
    /\ UNCHANGED <<args, frame, i, units>>

\* The caller reads the result through every accessor.
Read(p) ==
    /\ pc[p] = "done"
    /\ units' = [units EXCEPT ![p] = [m \in DOMAIN Distance |-> Eval(Distance[m], "d" :> ret[p])]]
    /\ pc' = [pc EXCEPT ![p] = "read"]
    /\ UNCHANGED <<args, frame, i, site, ret>>

(***************************************************************************)
(* Spec: one caller, every call below.                                     *)
(***************************************************************************)
Calls ==
    {<<Origin, Origin>>, <<Origin, East1>>, <<East1, Origin>>, <<Origin, North1>>,
     <<Boston, NewYork>>, <<Origin, NearAntipode>>, <<Origin, Antipode>>,
     <<NaNPoint, NaNPoint>>, <<InfPoint, InfPoint>>, <<Origin, InfPoint>>,
     <<Origin, FullTurn>>, <<Origin, Hairbreadth>>}

CallOne == \E c \in Calls : Call(1, c[1], c[2])

Next == CallOne \/ Iterate(1) \/ GiveUp(1) \/ Read(1)

Spec == Init /\ [][Next]_vars

(***************************************************************************)
(* FairSpec: the caller of Spec, whose call is never abandoned half way:   *)
(* a goroutine inside Inverse keeps being scheduled.  The second conjunct  *)
(* is WF_vars(Iterate(1)) written out: Iterate(1) is enabled exactly when  *)
(* the loop test holds, and it is the only step from such a state.         *)
(***************************************************************************)
InLoop == pc[1] = "loop"

LoopTestHolds == InLoop /\ LoopCondition(i[1])

FairSpec ==
    /\ Spec
    /\ WF_vars(GiveUp(1))
    /\ []<>(~LoopTestHolds) \/ []<><<LoopTestHolds>>_vars

(***************************************************************************)
(* SpecSwap: caller 1 calls Inverse(P, Q) and, once that has returned,     *)
(* caller 2 calls Inverse(Q, P).                                           *)
(***************************************************************************)
SwapCalls ==
    {<<Origin, Origin>>, <<Origin, East1>>, <<Boston, NewYork>>,
     <<Origin, Hairbreadth>>, <<NaNPoint, Origin>>, <<ArcticOcean, Iowa>>}

CallPair == pc[2] = "idle" /\ \E c \in SwapCalls : Call(1, c[1], c[2])

CallSwapped == pc[1] = "done" /\ Call(2, args[1][2], args[1][1])

NextSwap == CallPair \/ CallSwapped \/ \E p \in Callers : Iterate(p) \/ GiveUp(p)

SpecSwap == Init /\ [][NextSwap]_vars

(***************************************************************************)
(* SpecConc: two goroutines call Inverse and read the results, their steps *)
(* interleaved in every order.                                             *)
(***************************************************************************)
ConcCalls(p) ==
    IF p = 1 THEN {<<Origin, East1>>, <<Origin, Origin>>}
    ELSE {<<NaNPoint, NaNPoint>>, <<Origin, North1>>}

CallAny(p) == \E c \in ConcCalls(p) : Call(p, c[1], c[2])

NextConc == \E p \in Callers : CallAny(p) \/ Iterate(p) \/ GiveUp(p) \/ Read(p)

SpecConc == Init /\ [][NextConc]_vars

(***************************************************************************)
(* The properties.                                                         *)
(***************************************************************************)
\* The float64 a Go constant expression denotes.
Value(e) == Eval(e, <<>>)

\* Variable name of caller p's activation.
Local(p, name) == frame[Frame(p)][name]

\* The loop bodies caller p's call has entered so far.
Bodies(p) == IF site[p] \in {"zero", "converged"} THEN i[p] + 1 ELSE i[p]

\* x rounded to the millimetre, as line 121 does it.
Millimetre(x) == FDiv(Round(FMul(x, FInt(1000))), FInt(1000))

\* The calls and results of vincenty_test.go, lines 34-72.
Scenarios ==
    {<<Origin, East1, Decimal(0, 111319491, 3)>>,
     <<Origin, North1, Decimal(0, 110574389, 3)>>,
     <<Origin, NearAntipode, Decimal(19, 936288579, 3)>>,
     <<Boston, NewYork, Decimal(0, 298396057, 3)>>}

\* C1: a call that converges returns round(s*1000)/1000 where
\* s = b*A*(sigma - deltaSigma), with the A, sigma and deltaSigma of the
\* iteration in which |Lambda - LambdaPrev| < 1e-12 held, no earlier iteration
\* having returned; the four scenario calls return 111319.491, 110574.389,
\* 19936288.579 and 298396.057.
ConvergedDistance ==
    /\ site[1] = "converged" =>
           /\ FLt(Abs(FSub(Local(1, "Lambda"), Local(1, "LambdaPrev"))),
                  Value(Decimal(0, 1, 12)))
           /\ ret[1] = Millimetre(FMul(FMul(Local(1, "b"), Local(1, "A")),
                                       FSub(Local(1, "sigma"), Local(1, "deltaSigma"))))
    /\ \A sc \in Scenarios :
           (pc[1] = "done" /\ args[1] = <<sc[1], sc[2]>>) =>
               (site[1] = "converged" /\ ret[1] = Value(sc[3]))

\* A slowly converging call has returned from its 182nd loop body.
ConvergedSlowly ==
    /\ pc[1] = "done"
    /\ args[1] = <<Origin, NearAntipode>>
    /\ site[1] = "converged"
    /\ i[1] = 181

\* C2: every call returns, after at most MaxIterations = 200 loop bodies,
\* whatever the coordinates are (out of range, infinite, NaN).
Terminates ==
    /\ [](Bodies(1) <= MaxIterations)
    /\ InLoop ~> (pc[1] = "done")

\* A call with a NaN coordinate has returned after 200 loop bodies.
NaNCallReturned ==
    /\ pc[1] = "done"
    /\ args[1] = <<NaNPoint, NaNPoint>>
    /\ Bodies(1) = MaxIterations

\* C3: a call returns -1.0 exactly when it left the loop after all 200
\* iterations, none of which converged or found sinSigma == 0; the results of
\* the zero and converged returns are never -1.0; Inverse((0,0),(0.5,179.7))
\* returns -1.0.
FailureSentinel ==
    pc[1] = "done" =>
        /\ FEq(ret[1], FInt(-1)) <=> site[1] = "failed"
        /\ site[1] = "failed" => (i[1] = MaxIterations /\ Bodies(1) = MaxIterations)
        /\ args[1] = <<Origin, Antipode>> => ret[1] = FInt(-1)

\* The nearly antipodal call has returned -1.0.
AntipodeFailed ==
    /\ pc[1] = "done"
    /\ args[1] = <<Origin, Antipode>>
    /\ site[1] = "failed"
    /\ ret[1] = FInt(-1)

\* Caller p passed the same point twice, bit for bit.
SamePoint(p) ==
    /\ Local(p, "point1.Latitude") = Local(p, "point2.Latitude")
    /\ Local(p, "point1.Longitude") = Local(p, "point2.Longitude")

\* C4 as stated: for any point P, Inverse(P, P) returns 0 from the
\* short-circuit, with no loop body entered.
IdentityOfAnyPoint ==
    (pc[1] = "done" /\ SamePoint(1)) =>
        (site[1] = "same" /\ ret[1] = FZero(0) /\ Bodies(1) = 0)

\* No coordinate of caller p's first argument is NaN.
Comparable(p) ==
    /\ ~IsNaN(Local(p, "point1.Latitude"))
    /\ ~IsNaN(Local(p, "point1.Longitude"))

\* C4: for any point P whose coordinates are not NaN, Inverse(P, P) returns 0
\* from the short-circuit, with no loop body entered.
IdentityOfComparablePoint ==
    (pc[1] = "done" /\ SamePoint(1) /\ Comparable(1)) =>
        (site[1] = "same" /\ ret[1] = FZero(0) /\ Bodies(1) = 0)

\* Inverse(P, P) has returned for a P with an infinite longitude.
IdentityReturned ==
    /\ pc[1] = "done"
    /\ args[1] = <<InfPoint, InfPoint>>
    /\ site[1] = "same"

\* The kind of outcome of caller p's call.
Outcome(p) == IF site[p] \in {"same", "zero"} THEN "zero" ELSE site[p]

InMillimetres(p) == Round(FMul(ret[p], FInt(1000)))

Accessors ==
    /\ [](pc[1] = "read" =>
              /\ units[1].Metres = ret[1]
              /\ units[1].Meters = ret[1]
              /\ units[1].Kilometres = FDiv(ret[1], FInt(1000))
              /\ units[1].Kilometers = units[1].Kilometres
              /\ units[1].NauticalMiles = FDiv(ret[1], FInt(1852))
              /\ units[1].Miles = FDiv(ret[1], Value(Decimal(0, 1609344, 3)))
              /\ units[1].Feet = FDiv(ret[1], Value(Decimal(0, 3048, 4))))
    /\ [][pc'[1] = "read" => ret'[1] = ret[1]]_vars

\* The distance from Boston to New York has been read in every unit.
DistanceRead ==
    /\ pc[1] = "read"
    /\ args[1] = <<Boston, NewYork>>
    /\ units[1].Miles # units[1].NauticalMiles
    /\ units[1].Kilometres = Value(Decimal(0, 298396057, 6))

\* C7: every value returned is 0.0, -1.0 or a value that round(x*1000)/1000
\* produced.
WholeMillimetres ==
    pc[1] \in {"done", "read"} =>
        \/ ret[1] = FZero(0)
        \/ ret[1] = FInt(-1)
        \/ (site[1] = "converged" /\ ret[1] = Millimetre(Local(1, "s")))

\* A call has returned a rounded value that is neither 0 nor -1.
RoundedReturned ==
    /\ pc[1] = "done"
    /\ site[1] = "converged"
    /\ ret[1] = Value(Decimal(0, 111319491, 3))

\* What each call of SpecConc returns when nothing else runs.
Alone(c) ==
    CASE c = <<Origin, East1>> -> Decimal(0, 111319491, 3)
      [] c = <<Origin, North1>> -> Decimal(0, 110574389, 3)
      [] c = <<Origin, Origin>> -> Num(0)
      [] c = <<NaNPoint, NaNPoint>> -> Num(-1)

\* C8: whatever the interleaving of two callers, and whatever calls came
\* before, each call returns what it returns when it runs alone.
Reentrant ==
    \A p \in Callers :
        pc[p] \in {"done", "read"} => ret[p] = Value(Alone(args[p]))

\* Caller 1's call has returned while caller 2's call is inside the loop,
\* after an earlier call of caller 1.
ReturnedWhileOtherRuns ==
    /\ pc[1] = "done"
    /\ args[1] = <<Origin, East1>>
    /\ pc[2] = "loop"
    /\ i[2] > 1
    /\ args[2] = <<NaNPoint, NaNPoint>>

\* C9: the b that Inverse computes with equals a*(1 - f).
SemiMinorAxisDerived ==
    pc[1] = "loop" =>
        Local(1, "b") = FMul(Local(1, "a"), FSub(FInt(1), Local(1, "f")))

\* C10: in every iteration, when sinSigma == 0 the call returns Distance(0)
\* at once: nothing after line 99 is computed, Lambda keeps its value and no
\* further iteration runs; this return is not the short-circuit before the
\* loop.
ZeroSinSigma ==
    [][(pc[1] = "loop" /\ i[1] < MaxIterations) =>
           /\ site'[1] = "zero" <=> IsZero(Local(1, "sinSigma")')
           /\ site'[1] = "zero" =>
                  /\ ret'[1] = FZero(0)
                  /\ pc'[1] = "done"
                  /\ i'[1] = i[1]
                  /\ \A n \in Locals \ {"sinLambda", "cosLambda", "sinSigma"} :
                         Local(1, n)' = Local(1, n)]_vars

\* Two different points have been found coincident inside the loop.
CoincidentInLoop ==
    /\ pc[1] = "done"
    /\ args[1] = <<Origin, Hairbreadth>>
    /\ site[1] = "zero"
    /\ Bodies(1) = 1
    /\ ret[1] = FZero(0)

====
